---- MODULE Spec2Model ----
(***************************************************************************)
(* Model of the locking primitives of mdekstrand/locks: Notify (a FIFO     *)
(* queue of waiters with optional timeout), Semaphore (a registry of held  *)
(* slots keyed by the handle's symbol, with weak references to the         *)
(* handles) and Mutex (Semaphore(1)), running on the host's event loop: a  *)
(* FIFO microtask queue that is drained before any timer callback runs.    *)
(***************************************************************************)
EXTENDS Naturals, Integers, Sequences, FiniteSets, TLC

\* ------------------------------------------------------------------ bounds
NumTasks == 3
MaxSlots == 2
MaxWaiters == 3
\* the poll timeout acquire() passes to notified()
PollTimeout == 50

Tasks == 1..NumTasks
\* waiter records (NotifyWaiter objects) that can exist at one time
WaiterIds == 1..MaxWaiters
\* symbols: at most one per registry entry plus one per handle a task keeps
Keys == 1..(MaxSlots + NumTasks + 1)

VARIABLES
  slots,        \* Semaphore.#slots
  active,       \* Semaphore.#active: the keys of the registry
  reclaimed,    \* keys of #active whose WeakRef.deref() is undefined
  waiters,      \* Notify.#waiters: the deque, head first
  pool,         \* the NotifyWaiter objects: resolution, timeout, promise
  microtasks,   \* the host's microtask queue, head first
  pc,           \* where each task is
  mode,         \* the call a task is in: acquire(), lock(func) or notified()
  h,            \* the key of the LockHandle a task holds (0: none)
  waitOn,       \* the waiter whose promise a task awaits (0: none)
  relCalls,     \* release calls made so far on the handle a task holds (1: any)
  waited,       \* the task's acquire suspended at least once
  everDiscarded,\* some handle was reclaimed without having been released
  ret           \* what the last step gave back to its caller

vars == <<slots, active, reclaimed, waiters, pool, microtasks, pc, mode, h,
          waitOn, relCalls, waited, everDiscarded, ret>>

\* ------------------------------------------------------------ host helpers
RECURSIVE SeqToSet(_)
SeqToSet(s) == IF s = <<>> THEN {} ELSE {Head(s)} \cup SeqToSet(Tail(s))

Min(S) == CHOOSE x \in S : \A y \in S : x <= y

\* a NotifyWaiter that does not exist (any more)
NoWaiter ==
  [resolution |-> "undefined", timeout |-> "undefined", promise |-> "none", delay |-> 0]

\* the task awaiting waiter w's promise (0: none)
Owner(w, wo, p) ==
  IF \E t \in Tasks : wo[t] = w /\ p[t] = "waiting"
  THEN CHOOSE t \in Tasks : wo[t] = w /\ p[t] = "waiting"
  ELSE 0

\* A waiter object is garbage once nothing refers to it: it is not in the
\* deque, its timer is not armed, no microtask closure holds it and no task
\* awaits its promise.
Referenced(w, q, pl, mt, wo, p) ==
  \/ w \in SeqToSet(q)
  \/ pl[w].timeout = "armed"
  \/ \E i \in 1..Len(mt) : mt[i].op = "resolve" /\ mt[i].id = w
  \/ Owner(w, wo, p) # 0

Collect(q, pl, mt, wo, p) ==
  [w \in WaiterIds |-> IF Referenced(w, q, pl, mt, wo, p) THEN pl[w] ELSE NoWaiter]

Live(pl) == {w \in WaiterIds : pl[w].promise # "none"}

\* Tasks suspended in acquire() whose waiter left the deque with its timer
\* still armed: the waiter object stays alive until the timer fires, and the
\* task will call notified() again if it finds no slot.
Reserved(q, pl, wo, p, md) ==
  {t \in Tasks : /\ p[t] = "waiting"
                 /\ md[t] # "notified"
                 /\ wo[t] \notin SeqToSet(q)
                 /\ pl[wo[t]].timeout = "armed"}

Demand(q, pl, wo, p, md) ==
  Cardinality(Live(pl)) + Cardinality(Reserved(q, pl, wo, p, md))

\* a further NotifyWaiter fits the bound
Room(q, pl, wo, p, md) == Demand(q, pl, wo, p, md) < MaxWaiters

\* ------------------------------------------------------------------ Notify
\* notified(timeout) that sets the timer whatever the timeout is
NotifiedAlwaysTimer(q, pl, timeout) ==
  LET w == Min(WaiterIds \ Live(pl))
  IN [w |-> w,
      q |-> Append(q, w),
      pl |-> [pl EXCEPT ![w] = [resolution |-> "undefined",
                                timeout |-> "armed",
                                promise |-> "pending",
                                delay |-> timeout]]]

\* notified(timeout) that never sets a timer
NotifiedNeverTimer(q, pl, timeout) ==
  LET w == Min(WaiterIds \ Live(pl))
  IN [w |-> w,
      q |-> Append(q, w),
      pl |-> [pl EXCEPT ![w] = [resolution |-> "undefined",
                                timeout |-> "undefined",
                                promise |-> "pending",
                                delay |-> timeout]]]

\* notified(timeout): a new waiter at the tail of the deque; a timer is set
\* when timeout is truthy (delay is the timeout the timer's closure was
\* made with)
Notified(q, pl, timeout) ==
  LET w == Min(WaiterIds \ Live(pl))
  IN [w |-> w,
      q |-> Append(q, w),
      pl |-> [pl EXCEPT ![w] = [resolution |-> "undefined",
                                timeout |-> IF timeout # 0 THEN "armed" ELSE "undefined",
                                promise |-> "pending",
                                delay |-> timeout]]]

\* notify() that resolves the head of the deque whatever its resolution
NotifyNoSkip(q, pl, mt) ==
  IF q = <<>> THEN [q |-> q, pl |-> pl, mt |-> mt]
  ELSE [q |-> Tail(q),
        pl |-> [pl EXCEPT ![Head(q)].resolution = "notified",
                          ![Head(q)].timeout = IF @ = "undefined" THEN @ ELSE "off"],
        mt |-> Append(mt, [op |-> "resolve", id |-> Head(q)])]

\* notify() without the loop: a resolved waiter at the head ends the call
NotifyHeadOnly(q, pl, mt) ==
  IF q = <<>> THEN [q |-> q, pl |-> pl, mt |-> mt]
  ELSE IF pl[Head(q)].resolution = "undefined"
       THEN NotifyNoSkip(q, pl, mt)
       ELSE [q |-> Tail(q), pl |-> pl, mt |-> mt]

\* notify() that resolves the waiter inline instead of queueing a microtask
NotifyInline(q, pl, mt) ==
  LET idx == {i \in 1..Len(q) : pl[q[i]].resolution = "undefined"}
  IN IF idx = {} THEN [q |-> <<>>, pl |-> pl, mt |-> mt]
     ELSE LET wait == q[Min(idx)]
          IN [q |-> SubSeq(q, Min(idx) + 1, Len(q)),
              pl |-> [pl EXCEPT ![wait].resolution = "notified",
                                ![wait].timeout = IF @ = "undefined" THEN @ ELSE "off",
                                ![wait].promise = "true"],
              mt |-> mt]

\* notify(): shift waiters off the head until one has no resolution; mark it
\* notified, clear its timer and queue the microtask that resolves it
RECURSIVE Notify(_, _, _)
Notify(q, pl, mt) ==
  IF q = <<>> THEN [q |-> q, pl |-> pl, mt |-> mt]
  ELSE LET wait == Head(q)
       IN IF pl[wait].resolution = "undefined"
          THEN [q |-> Tail(q),
                pl |-> [pl EXCEPT ![wait].resolution = "notified",
                                  ![wait].timeout =
                                     IF @ = "undefined" THEN @ ELSE "off"],
                mt |-> Append(mt, [op |-> "resolve", id |-> wait])]
          ELSE Notify(Tail(q), pl, mt)

\* notifyAll() that returns after the first waiter
NotifyAllHeadOnly(q, pl, mt) ==
  IF q = <<>> THEN [q |-> q, pl |-> pl, mt |-> mt]
  ELSE [q |-> Tail(q), pl |-> pl, mt |-> Append(mt, [op |-> "resolve", id |-> Head(q)])]

\* notifyAll(): shift every waiter off the deque and queue a microtask that
\* resolves it; neither the resolution nor the timer is touched
RECURSIVE NotifyAll(_, _, _)
NotifyAll(q, pl, mt) ==
  IF q = <<>> THEN [q |-> q, pl |-> pl, mt |-> mt]
  ELSE NotifyAll(Tail(q), pl, Append(mt, [op |-> "resolve", id |-> Head(q)]))

\* wait.resolve(v): settles the promise unless it is settled already
Resolve(pl, w, v) ==
  IF pl[w].promise = "pending" THEN [pl EXCEPT ![w].promise = v] ELSE pl

\* --------------------------------------------------------------- Semaphore
\* #available() with `<=` for `<` in both comparisons
AvailableOffByOne(act, rec) ==
  IF Cardinality(act) <= slots
  THEN [ok |-> TRUE, active |-> act]
  ELSE LET swept == act \ rec
       IN [ok |-> Cardinality(swept) <= slots, active |-> swept]

\* #available() with the deref() test inverted: the live entries are deleted
AvailableInverted(act, rec) ==
  IF Cardinality(act) < slots
  THEN [ok |-> TRUE, active |-> act]
  ELSE LET swept == act \cap rec
       IN [ok |-> Cardinality(swept) < slots, active |-> swept]

\* #available() without the sweep of stale entries
AvailableNoSweep(act, rec) ==
  [ok |-> Cardinality(act) < slots, active |-> act]

\* #available() that gives way to the waiters of the deque: no slot for a
\* caller while somebody is queued
AvailableUnlessQueued(act, rec) ==
  IF waiters # <<>>
  THEN [ok |-> FALSE, active |-> act]
  ELSE IF Cardinality(act) < slots
       THEN [ok |-> TRUE, active |-> act]
       ELSE LET swept == act \ rec
            IN [ok |-> Cardinality(swept) < slots, active |-> swept]

\* #available(): free slots, or free slots once the stale entries are deleted
Available(act, rec) ==
  IF Cardinality(act) < slots
  THEN [ok |-> TRUE, active |-> act]
  ELSE LET swept == act \ rec
       IN [ok |-> Cardinality(swept) < slots, active |-> swept]

\* Symbol(): a key no registry entry and no handle carries
NewKey(act) == Min(Keys \ (act \cup {h[u] : u \in Tasks}))

\* #release(sym) that ignores the result of delete()
ReleaseKeySilent(sym, act, q, pl, mt) ==
  LET n == Notify(q, pl, mt)
  IN [threw |-> FALSE, active |-> act \ {sym}, q |-> n.q, pl |-> n.pl, mt |-> n.mt]

\* #release(sym) that tests has(sym) and never deletes the entry
ReleaseKeyKeepsEntry(sym, act, q, pl, mt) ==
  IF sym \in act
  THEN LET n == Notify(q, pl, mt)
       IN [threw |-> FALSE, active |-> act, q |-> n.q, pl |-> n.pl, mt |-> n.mt]
  ELSE [threw |-> TRUE, active |-> act, q |-> q, pl |-> pl, mt |-> mt]

\* #release(sym) that deletes the entry and notifies nobody
ReleaseKeyNoNotify(sym, act, q, pl, mt) ==
  IF sym \in act
  THEN [threw |-> FALSE, active |-> act \ {sym}, q |-> q, pl |-> pl, mt |-> mt]
  ELSE [threw |-> TRUE, active |-> act, q |-> q, pl |-> pl, mt |-> mt]

\* #release(sym) that calls notify() before it tests the result of delete()
ReleaseKeyNotifiesFirst(sym, act, q, pl, mt) ==
  LET n == Notify(q, pl, mt)
  IN [threw |-> sym \notin act, active |-> act \ {sym},
      q |-> n.q, pl |-> n.pl, mt |-> n.mt]

\* #release(sym): delete the entry and notify(), or throw
ReleaseKey(sym, act, q, pl, mt) ==
  IF sym \in act
  THEN LET n == Notify(q, pl, mt)
       IN [threw |-> FALSE, active |-> act \ {sym}, q |-> n.q, pl |-> n.pl, mt |-> n.mt]
  ELSE [threw |-> TRUE, active |-> act, q |-> q, pl |-> pl, mt |-> mt]

\* tasks suspended in acquire()
Pending == {t \in Tasks : pc[t] = "waiting" /\ mode[t] # "notified"}

\* ------------------------------------------------------------------- state
\* the last step gave nothing back
NoRet == [op |-> "none"]

InitCommon ==
  /\ active = {}
  /\ reclaimed = {}
  /\ waiters = <<>>
  /\ pool = [w \in WaiterIds |-> NoWaiter]
  /\ microtasks = <<>>
  /\ pc = [t \in Tasks |-> "idle"]
  /\ mode = [t \in Tasks |-> "none"]
  /\ h = [t \in Tasks |-> 0]
  /\ waitOn = [t \in Tasks |-> 0]
  /\ relCalls = [t \in Tasks |-> 0]
  /\ waited = [t \in Tasks |-> FALSE]
  /\ everDiscarded = FALSE
  /\ ret = NoRet

\* new Semaphore(count), count a positive integer
Init == slots \in 1..MaxSlots /\ InitCommon

\* ------------------------------------------------------- acquire(), lock()
\* The body of acquire() from the loop test on, run by task t on the Notify
\* state (q, pl, mt): either the handle is made and registered and the
\* promise acquire() returned is resolved (its awaiter continues in a later
\* microtask), or the task suspends in notified(PollTimeout). A grant tells
\* what it came after: the call itself, or a wait that gave true or false.
AcquireStep(t, q, pl, mt, wd, needRoom) ==
  LET av == Available(active, reclaimed)
  IN IF av.ok
     THEN LET lock == NewKey(av.active)
          IN /\ active' = av.active \cup {lock}
             /\ reclaimed' = reclaimed \cap av.active
             /\ h' = [h EXCEPT ![t] = lock]
             /\ pc' = [pc EXCEPT ![t] = "granted"]
             /\ waitOn' = [waitOn EXCEPT ![t] = 0]
             /\ microtasks' = Append(mt, [op |-> "cont", id |-> t])
             /\ waiters' = q
             /\ pool' = Collect(q, pl, microtasks', waitOn', pc')
             /\ waited' = wd
             /\ ret' = [op |-> "grant", t |-> t,
                        after |-> IF pc[t] = "idle" THEN "call"
                                  ELSE pl[waitOn[t]].promise]
     ELSE LET freed == Collect(q, pl, mt, [waitOn EXCEPT ![t] = 0], pc)
              n == Notified(q, freed, PollTimeout)
          IN /\ needRoom => Room(q, pl, waitOn, pc, mode)
             /\ active' = av.active
             /\ reclaimed' = reclaimed \cap av.active
             /\ h' = h
             /\ pc' = [pc EXCEPT ![t] = "waiting"]
             /\ waitOn' = [waitOn EXCEPT ![t] = n.w]
             /\ microtasks' = mt
             /\ waiters' = n.q
             /\ pool' = n.pl
             /\ waited' = [wd EXCEPT ![t] = TRUE]
             /\ ret' = NoRet

\* A task calls acquire(), itself or as the first statement of lock(func),
\* `using _lock = await this.acquire()`: the two differ only in what awaits
\* the promise, which RunCont tells apart.
AcquireCall(t) ==
  /\ pc[t] = "idle"
  /\ mode' = [mode EXCEPT ![t] = "acquire"]
  /\ AcquireStep(t, waiters, pool, microtasks, waited, TRUE)
  /\ UNCHANGED <<slots, relCalls, everDiscarded>>

\* ------------------------------------------------------------ the host
\* The microtask at the head of the queue is `() => wait.resolve(true)`: it
\* settles the promise, and the task awaiting it continues in a later
\* microtask.
RunResolve ==
  /\ microtasks # <<>>
  /\ Head(microtasks).op = "resolve"
  /\ LET w == Head(microtasks).id
         t == Owner(w, waitOn, pc)
         settles == pool[w].promise = "pending"
         mt == IF settles /\ t # 0
               THEN Append(Tail(microtasks), [op |-> "resume", id |-> t])
               ELSE Tail(microtasks)
     IN /\ microtasks' = mt
        /\ pool' = Collect(waiters, Resolve(pool, w, "true"), mt, waitOn, pc)
  /\ ret' = NoRet
  /\ UNCHANGED <<slots, active, reclaimed, waiters, pc, mode, h, waitOn,
                 relCalls, waited, everDiscarded>>

\* The continuation of `await this.#wait.notified(50)` (the loop of acquire
\* tests #available() again) or of a caller's own `await notify.notified()`,
\* which gets the promise's value v.
Resume(t, v, pl, mt, needRoom) ==
  IF mode[t] = "notified"
  THEN /\ pc' = [pc EXCEPT ![t] = "idle"]
       /\ mode' = [mode EXCEPT ![t] = "none"]
       /\ ret' = [op |-> "notified", t |-> t, value |-> v]
       /\ waitOn' = [waitOn EXCEPT ![t] = 0]
       /\ microtasks' = mt
       /\ pool' = Collect(waiters, pl, mt, waitOn', pc')
       /\ UNCHANGED <<active, reclaimed, waiters, h, waited>>
  ELSE /\ AcquireStep(t, waiters, pl, mt, waited, needRoom)
       /\ UNCHANGED mode

RunResume ==
  /\ microtasks # <<>>
  /\ Head(microtasks).op = "resume"
  /\ LET t == Head(microtasks).id
     IN Resume(t, pool[waitOn[t]].promise, pool, Tail(microtasks), FALSE)
  /\ UNCHANGED <<slots, relCalls, everDiscarded>>

\* The continuation of `await semaphore.acquire()`: the caller has the
\* handle; when the caller is lock(func) it goes on to call func.
RunCont(byLock) ==
  /\ microtasks # <<>>
  /\ Head(microtasks).op = "cont"
  /\ LET t == Head(microtasks).id
     IN /\ pc' = [pc EXCEPT ![t] = IF byLock THEN "body" ELSE "holding"]
        /\ mode' = [mode EXCEPT ![t] = IF byLock THEN "lock" ELSE "acquire"]
        /\ waited' = [waited EXCEPT ![t] = FALSE]
  /\ microtasks' = Tail(microtasks)
  /\ ret' = NoRet
  /\ UNCHANGED <<slots, active, reclaimed, waiters, pool, h, waitOn,
                 relCalls, everDiscarded>>

\* The timer of waiter w fires. Timer callbacks are tasks of the event loop:
\* one runs only when the microtask queue is empty, and the microtasks it
\* queues (the continuation of the task awaiting the promise) run before
\* anything else does.
TimerFire(w) ==
  /\ pool[w].timeout = "armed"
  /\ microtasks = <<>>
  /\ LET unresolved == pool[w].resolution = "undefined"
         settles == unresolved /\ pool[w].promise = "pending"
         t == Owner(w, waitOn, pc)
         fired == [pool EXCEPT ![w].timeout = "off",
                               ![w].resolution = IF unresolved THEN "cancelled" ELSE @]
         pl == IF unresolved THEN Resolve(fired, w, "false") ELSE fired
     IN IF settles /\ t # 0
        THEN Resume(t, "false", pl, <<>>, TRUE)
        ELSE /\ pool' = Collect(waiters, pl, <<>>, waitOn, pc)
             /\ ret' = NoRet
             /\ UNCHANGED <<active, reclaimed, waiters, microtasks, pc, mode, h,
                            waitOn, waited>>
  /\ UNCHANGED <<slots, relCalls, everDiscarded>>

\* ------------------------------------------------------------- LockHandle
\* What a call of release() by task t does to the Semaphore and its Notify;
\* r is the outcome of #release(this.key).
Released(t, r) ==
  /\ active' = r.active
  /\ waiters' = r.q
  /\ microtasks' = r.mt
  /\ pool' = Collect(r.q, r.pl, r.mt, waitOn, pc)
  /\ UNCHANGED <<slots, reclaimed, waitOn, waited, everDiscarded>>

\* what the caller of release() sees, and what the call found
ReleaseRet(op, t, r) ==
  [op |-> op, t |-> t, threw |-> r.threw,
   calls |-> relCalls[t],
   present |-> h[t] \in active,
   full |-> Cardinality(active) >= slots,
   pend |-> Pending]

\* handle.release(): the task keeps the handle
Release(t) ==
  /\ pc[t] = "holding"
  /\ LET r == ReleaseKey(h[t], active, waiters, pool, microtasks)
     IN Released(t, r) /\ ret' = ReleaseRet("release", t, r)
  /\ relCalls' = [relCalls EXCEPT ![t] = 1]
  /\ UNCHANGED <<pc, mode, h>>

\* handle[Symbol.dispose](), at the end of the scope of `using`: it calls
\* release(), and the scope is left whether or not that throws
Dispose(t) ==
  /\ pc[t] = "holding"
  /\ LET r == ReleaseKey(h[t], active, waiters, pool, microtasks)
     IN Released(t, r) /\ ret' = ReleaseRet("dispose", t, r)
  /\ relCalls' = [relCalls EXCEPT ![t] = 0]
  /\ pc' = [pc EXCEPT ![t] = "idle"]
  /\ mode' = [mode EXCEPT ![t] = "none"]
  /\ h' = [h EXCEPT ![t] = 0]

\* The task drops its handle and the host collects it: deref() of the
\* registry's WeakRef now gives undefined.
Discard(t) ==
  /\ pc[t] = "holding"
  /\ pc' = [pc EXCEPT ![t] = "idle"]
  /\ mode' = [mode EXCEPT ![t] = "none"]
  /\ h' = [h EXCEPT ![t] = 0]
  /\ relCalls' = [relCalls EXCEPT ![t] = 0]
  /\ reclaimed' = IF h[t] \in active THEN reclaimed \cup {h[t]} ELSE reclaimed
  /\ everDiscarded' = (everDiscarded \/ h[t] \in active)
  /\ ret' = NoRet
  /\ UNCHANGED <<slots, active, waiters, pool, microtasks, waitOn, waited>>

\* what lock(func) produces: `using` disposes the handle when the block is
\* left, and an error of the disposal after an error of the body is a
\* SuppressedError
LockResult(returned, threw) ==
  IF returned
  THEN IF threw THEN "disposeError" ELSE "value"
  ELSE IF threw THEN "suppressedError" ELSE "bodyError"

\* lock(func) that releases after `await func()` without `using` or finally:
\* an error of func skips the release
BodyExitLeaky(t, returned) ==
  /\ pc[t] = "body"
  /\ LET r == IF returned
              THEN ReleaseKey(h[t], active, waiters, pool, microtasks)
              ELSE [threw |-> FALSE, active |-> active, q |-> waiters,
                    pl |-> pool, mt |-> microtasks]
     IN /\ Released(t, r)
        /\ ret' = [op |-> "lock", t |-> t, threw |-> r.threw,
                   calls |-> relCalls[t],
                   present |-> h[t] \in active,
                   returned |-> returned,
                   result |-> LockResult(returned, r.threw),
                   inRegistry |-> h[t] \in r.active,
                   full |-> Cardinality(active) >= slots,
                   pend |-> Pending]
  /\ relCalls' = [relCalls EXCEPT ![t] = 0]
  /\ pc' = [pc EXCEPT ![t] = "idle"]
  /\ mode' = [mode EXCEPT ![t] = "none"]
  /\ h' = [h EXCEPT ![t] = 0]

\* lock(func): `return await func()` ends, by a value or by an error, and the
\* scope of `using _lock` is left
BodyExit(t, returned) ==
  /\ pc[t] = "body"
  /\ LET r == ReleaseKey(h[t], active, waiters, pool, microtasks)
     IN /\ Released(t, r)
        /\ ret' = [op |-> "lock", t |-> t, threw |-> r.threw,
                   calls |-> relCalls[t],
                   present |-> h[t] \in active,
                   returned |-> returned,
                   result |-> LockResult(returned, r.threw),
                   inRegistry |-> h[t] \in r.active,
                   full |-> Cardinality(active) >= slots,
                   pend |-> Pending]
  /\ relCalls' = [relCalls EXCEPT ![t] = 0]
  /\ pc' = [pc EXCEPT ![t] = "idle"]
  /\ mode' = [mode EXCEPT ![t] = "none"]
  /\ h' = [h EXCEPT ![t] = 0]

\* _checkStale() that calls notifyAll() only when it deleted an entry
CheckStaleOnRemoval ==
  LET swept == active \ reclaimed
      wake == swept # active /\ Cardinality(swept) < slots
      n == IF wake THEN NotifyAll(waiters, pool, microtasks)
           ELSE [q |-> waiters, pl |-> pool, mt |-> microtasks]
  IN /\ wake => Demand(<<>>, pool, waitOn, pc, mode) <= MaxWaiters
     /\ active' = swept
     /\ reclaimed' = {}
     /\ waiters' = n.q
     /\ microtasks' = n.mt
     /\ pool' = Collect(n.q, n.pl, n.mt, waitOn, pc)
     /\ ret' = NoRet
     /\ UNCHANGED <<slots, pc, mode, h, waitOn, relCalls, waited, everDiscarded>>

\* _checkStale(): delete the stale entries; notifyAll() if a slot is free
CheckStale ==
  LET swept == active \ reclaimed
      wake == Cardinality(swept) < slots
      n == IF wake THEN NotifyAll(waiters, pool, microtasks)
           ELSE [q |-> waiters, pl |-> pool, mt |-> microtasks]
  IN /\ wake => Demand(<<>>, pool, waitOn, pc, mode) <= MaxWaiters
     /\ active' = swept
     /\ reclaimed' = {}
     /\ waiters' = n.q
     /\ microtasks' = n.mt
     /\ pool' = Collect(n.q, n.pl, n.mt, waitOn, pc)
     /\ ret' = NoRet
     /\ UNCHANGED <<slots, pc, mode, h, waitOn, relCalls, waited, everDiscarded>>

\* ------------------------------------------------- direct users of a Notify
\* `await notify.notified(timeout)`; timeout 0 stands for an absent one too
NotifiedCall(t, timeout) ==
  /\ pc[t] = "idle"
  /\ Room(waiters, pool, waitOn, pc, mode)
  /\ LET n == Notified(waiters, pool, timeout)
     IN /\ waiters' = n.q
        /\ pool' = n.pl
        /\ waitOn' = [waitOn EXCEPT ![t] = n.w]
  /\ pc' = [pc EXCEPT ![t] = "waiting"]
  /\ mode' = [mode EXCEPT ![t] = "notified"]
  /\ ret' = NoRet
  /\ UNCHANGED <<slots, active, reclaimed, microtasks, h, relCalls, waited,
                 everDiscarded>>

NotifyCall ==
  /\ LET n == Notify(waiters, pool, microtasks)
     IN /\ waiters' = n.q
        /\ microtasks' = n.mt
        /\ pool' = Collect(n.q, n.pl, n.mt, waitOn, pc)
  /\ ret' = NoRet
  /\ UNCHANGED <<slots, active, reclaimed, pc, mode, h, waitOn, relCalls,
                 waited, everDiscarded>>

NotifyAllCall ==
  /\ LET n == NotifyAll(waiters, pool, microtasks)
     IN /\ waiters' = n.q
        /\ microtasks' = n.mt
        /\ pool' = Collect(n.q, n.pl, n.mt, waitOn, pc)
  /\ ret' = NoRet
  /\ UNCHANGED <<slots, active, reclaimed, pc, mode, h, waitOn, relCalls,
                 waited, everDiscarded>>

\* ---------------------------------------------------------- specifications
RunMicrotask == RunResolve \/ RunResume \/ RunCont(TRUE) \/ RunCont(FALSE)

\* a Semaphore used by NumTasks tasks
Next ==
  \/ \E t \in Tasks : AcquireCall(t)
  \/ \E t \in Tasks : Release(t)
  \/ \E t \in Tasks : Dispose(t)
  \/ \E t \in Tasks : Discard(t)
  \/ \E t \in Tasks : BodyExit(t, TRUE)
  \/ \E t \in Tasks : BodyExit(t, FALSE)
  \/ CheckStale
  \/ RunResolve
  \/ RunResume
  \/ RunCont(TRUE)
  \/ RunCont(FALSE)
  \/ \E w \in WaiterIds : TimerFire(w)

Spec == Init /\ [][Next]_vars

\* The event loop runs every queued microtask and every armed timer fires;
\* nothing obliges a task to call anything.
Fairness ==
  /\ WF_vars(RunMicrotask)
  /\ \A w \in WaiterIds : WF_vars(TimerFire(w))

FairSpec == Spec /\ Fairness

\* A timer that is due fires at one of the turns of the event loop: it is
\* not passed over for ever by tasks that keep the loop busy, each of whose
\* microtask queues runs empty.
TimerFairness ==
  /\ WF_vars(RunMicrotask)
  /\ \A w \in WaiterIds : SF_vars(TimerFire(w))

TimerFairSpec == Spec /\ TimerFairness

\* a Notify used directly by NumTasks tasks
NotifyInit == slots = 1 /\ InitCommon

NotifyNext ==
  \/ \E t \in Tasks : NotifiedCall(t, 0)
  \/ \E t \in Tasks : NotifiedCall(t, PollTimeout)
  \/ NotifyCall
  \/ NotifyAllCall
  \/ RunResolve
  \/ RunResume
  \/ \E w \in WaiterIds : TimerFire(w)

NotifySpec == NotifyInit /\ [][NotifyNext]_vars

FairNotifySpec == NotifySpec /\ Fairness

\* tasks holding a handle on which release() has not been called
Unreleased ==
  {t \in Tasks : pc[t] \in {"granted", "holding", "body"} /\ relCalls[t] = 0}

ReleaseOps == {"release", "dispose", "lock"}

\* Two tasks and a Mutex: an acquire is called when nobody holds or awaits
\* the mutex, or by one further task while the first holds it; a handle is
\* released by release() or at the end of its scope.
MutexInit == slots = 1 /\ InitCommon

\* the task is not using the mutex: it has no handle, or a released one
Done(u) == pc[u] = "idle" \/ (pc[u] = "holding" /\ relCalls[u] = 1)

FirstAcquire(t) ==
  /\ \A u \in Tasks \ {t} : Done(u)
  /\ AcquireCall(t)

SecondAcquire(t) ==
  /\ \E a \in Tasks \ {t} :
        /\ pc[a] \in {"granted", "holding"} /\ relCalls[a] = 0
        /\ \A u \in Tasks \ {a, t} : Done(u)
  /\ AcquireCall(t)

MutexNext ==
  \/ \E t \in Tasks : FirstAcquire(t)
  \/ \E t \in Tasks : SecondAcquire(t)
  \/ \E t \in Tasks : Release(t)
  \/ \E t \in Tasks : Dispose(t)
  \/ RunResolve
  \/ RunResume
  \/ RunCont(FALSE)
  \/ \E w \in WaiterIds : TimerFire(w)

MutexSpec == MutexInit /\ [][MutexNext]_vars

FairMutexSpec == MutexSpec /\ Fairness

\* Tasks that call acquire() in the order of their numbers, and timers that
\* fire in the order they were set (all have the delay PollTimeout): of the
\* tasks that are not idle, the one with the smaller number called earlier.
\* Without notifyAll() every armed timer belongs to a waiter of the deque,
\* and the deque has the waiters in the order they were made.
OrderedAcquire(t) ==
  /\ \A u \in Tasks : u < t => pc[u] # "idle"
  /\ \A u \in Tasks : u > t => pc[u] = "idle"
  /\ AcquireCall(t)

OrderedTimerFire(w) ==
  /\ \E j \in 1..Len(waiters) :
        /\ waiters[j] = w
        /\ \A i \in 1..(j - 1) : pool[waiters[i]].timeout # "armed"
  /\ TimerFire(w)

PollNext ==
  \/ \E t \in Tasks : OrderedAcquire(t)
  \/ \E t \in Tasks : Release(t)
  \/ \E t \in Tasks : Dispose(t)
  \/ \E t \in Tasks : Discard(t)
  \/ RunResolve
  \/ RunResume
  \/ RunCont(FALSE)
  \/ \E w \in WaiterIds : OrderedTimerFire(w)

PollSpec == Init /\ [][PollNext]_vars

TypeOK ==
  /\ slots \in 1..MaxSlots
  /\ active \subseteq Keys
  /\ reclaimed \subseteq active
  /\ Cardinality(Live(pool)) <= MaxWaiters

\* ------------------------------------------------------------------ claims
\* a release call that deleted its entry
ReleasedNow == ret.op \in ReleaseOps /\ ~ret.threw

\* C1: a Semaphore of capacity N never has more than N handles that were
\* granted and are neither released nor reclaimed, and its registry never
\* holds more than N entries.
C1_CapacityBound ==
  /\ Cardinality(Unreleased) <= slots
  /\ Cardinality(active) <= slots

\* every slot is held by an unreleased handle and a further acquire waits
C1_Witness ==
  /\ slots = MaxSlots
  /\ Cardinality(Unreleased) = slots
  /\ Pending # {}

\* C2: a release call on a handle that release was already called on, by
\* release() or by disposal, throws; so does any release of a key that is
\* not in the registry.
C2_DoubleReleaseThrows ==
  ret.op \in ReleaseOps => ((ret.calls >= 1 \/ ~ret.present) => ret.threw)

\* the disposal at the end of the scope threw after an explicit release()
C2_Witness == ret.op = "dispose" /\ ret.calls = 1 /\ ret.threw

\* C3 as claimed: with one slot, when an acquire completes every handle
\* granted before has been released.
C3_AfterRelease ==
  (slots = 1 /\ ret.op = "grant") =>
     (~everDiscarded /\ Unreleased \subseteq {ret.t})

\* C3: with one slot, when an acquire completes every handle granted before
\* has been released or has been reclaimed by the host: no other task holds
\* an unreleased handle.
C3_MutexExclusive ==
  (slots = 1 /\ ret.op = "grant") => Unreleased \subseteq {ret.t}

\* an acquire of a mutex that had to wait completes, no handle having been
\* reclaimed: the holder released
C3_Witness ==
  slots = 1 /\ ret.op = "grant" /\ waited[ret.t] /\ ~everDiscarded

\* C4: when lock(func) ends, by a value or by an error of func, its handle
\* was released by exactly one release call, which did not throw, its key is
\* not in the registry, and lock gives func's value or func's error.
C4_LockReleases ==
  ret.op = "lock" =>
     /\ ret.calls = 0 /\ ret.present /\ ~ret.threw
     /\ ~ret.inRegistry
     /\ ret.result = IF ret.returned THEN "value" ELSE "bodyError"

\* lock(func) ended by an error of func while another acquire was suspended
C4_Witness ==
  ret.op = "lock" /\ ~ret.returned /\ ret.result = "bodyError" /\ ret.pend # {}

C6_StaleReclaimed ==
  (Cardinality(active) >= slots /\ reclaimed # {} /\ Pending # {}) ~> (ret.op = "grant")

\* the registry is full of entries, all of them stale, and an acquire is
\* suspended with its poll timer armed
C6_Witness ==
  /\ Cardinality(active) >= slots
  /\ reclaimed = active
  /\ \E t \in Pending : pool[waitOn[t]].timeout = "armed" /\ waitOn[t] \in SeqToSet(waiters)

\* the microtask that resolves waiter w is queued
ResolveQueued(w, mt) == \E i \in 1..Len(mt) : mt[i] = [op |-> "resolve", id |-> w]

\* the positions of the waiters of the deque that have no resolution yet
PendingIdx(q, pl) == {i \in 1..Len(q) : pl[q[i]].resolution = "undefined"}

\* C7: a wait without timeout (absent or zero) has no timer and never gives
\* false: its task goes on only after a notify or notifyAll resolved its
\* promise, and gets true; a wait with a positive timeout that no notify
\* reached gives false when its timer fires, and every such wait ends.
C7_NoTimerNeverExpires ==
  \A w \in WaiterIds :
     pool[w].delay = 0 =>
        /\ pool[w].timeout = "undefined"
        /\ pool[w].promise # "false"
        /\ pool[w].resolution # "cancelled"

C7_WaitOutcome ==
  \A t \in Tasks :
     (pc[t] = "waiting" /\ pc'[t] # "waiting") =>
        LET w == waitOn[t]
            fires == /\ pool[w].timeout = "armed"
                     /\ pool[w].promise = "pending"
                     /\ microtasks = <<>>
        IN /\ ret'.op = "notified" /\ ret'.t = t
           /\ fires => ret'.value = "false"
           /\ ~fires => (pool[w].promise = "true" /\ ret'.value = "true")

C7_TimerGivesFalse ==
  \A w \in WaiterIds :
     (/\ pool[w].timeout = "armed" /\ pool[w].promise = "pending"
      /\ pool'[w].timeout = "off" /\ pool'[w].resolution = "cancelled") =>
        (ret'.op = "notified" /\ ret'.value = "false" /\ waitOn[ret'.t] = w)

C7_NotifiedWait ==
  /\ []C7_NoTimerNeverExpires
  /\ [][C7_WaitOutcome /\ C7_TimerGivesFalse]_vars
  /\ \A t \in Tasks :
        (pc[t] = "waiting" /\ pool[waitOn[t]].delay # 0) ~> (pc[t] = "idle")

\* a wait gave false while a wait without timeout stays in the deque
C7_Witness ==
  /\ ret.op = "notified" /\ ret.value = "false"
  /\ \E t \in Tasks : pc[t] = "waiting" /\ pool[waitOn[t]].delay = 0
                        /\ pool[waitOn[t]].promise = "pending"

\* C8: notify() resolves one waiter, the earliest registered one that has no
\* resolution, and drops the resolved ones before it; the waiters after it
\* stay in the deque as they are; with no waiter without resolution it
\* resolves nobody. The waiter it resolves gets true.
C8_NotifyStep ==
  NotifyCall =>
     LET idx == PendingIdx(waiters, pool)
     IN IF idx = {}
        THEN /\ waiters' = <<>>
             /\ microtasks' = microtasks
             /\ \A x \in WaiterIds :
                   pool'[x].resolution = "notified" => pool[x].resolution = "notified"
        ELSE LET i == Min(idx)
                 w == waiters[i]
             IN /\ waiters' = SubSeq(waiters, i + 1, Len(waiters))
                /\ pool'[w].resolution = "notified"
                /\ microtasks' = Append(microtasks, [op |-> "resolve", id |-> w])
                /\ \A x \in WaiterIds \ {w} :
                      /\ x \in SeqToSet(waiters') => pool'[x] = pool[x]
                      /\ pool'[x].resolution = "notified" => pool[x].resolution = "notified"

C8_NotifiedGetsTrue ==
  \A w \in WaiterIds :
     pool[w].resolution = "notified" =>
        \/ pool[w].promise = "true"
        \/ pool[w].promise = "pending" /\ ResolveQueued(w, microtasks)

C8_NotifyOneFifo == []C8_NotifiedGetsTrue /\ [][C8_NotifyStep]_vars

\* notify() resolved a waiter and a later one waits on in the deque
C8_Witness ==
  /\ \E w \in WaiterIds : pool[w].resolution = "notified" /\ ResolveQueued(w, microtasks)
  /\ waiters # <<>>
  /\ pool[Head(waiters)].resolution = "undefined"

\* C9: notifyAll() empties the deque and queues the resolution of every
\* waiter that was in it; a pending waiter whose resolution is queued gets
\* true (its timer cannot fire before), its task is resumed once, and a
\* promise that a timeout resolved to false stays false.
C9_NotifyAllStep ==
  NotifyAllCall =>
     /\ waiters' = <<>>
     /\ \A w \in SeqToSet(waiters) : ResolveQueued(w, microtasks')

C9_QueuedGetsTrue ==
  \A w \in WaiterIds :
     /\ (pool[w].promise = "pending" /\ ResolveQueued(w, microtasks)) =>
           \/ pool'[w].promise = "true"
           \/ pool'[w].promise = "pending" /\ ResolveQueued(w, microtasks')
     /\ pool[w].promise = "false" => pool'[w].promise \in {"false", "none"}

C9_ResumedOnce ==
  \A t \in Tasks :
     Cardinality({i \in 1..Len(microtasks) :
                    microtasks[i] = [op |-> "resume", id |-> t]}) <= 1

C9_NotifyAllResolves ==
  []C9_ResumedOnce /\ [][C9_NotifyAllStep /\ C9_QueuedGetsTrue]_vars

\* notifyAll() took two pending waiters off the deque, one with its timer
\* armed
C9_Witness ==
  /\ waiters = <<>>
  /\ \E w1, w2 \in WaiterIds :
        /\ w1 # w2
        /\ pool[w1].promise = "pending" /\ ResolveQueued(w1, microtasks)
        /\ pool[w2].promise = "pending" /\ ResolveQueued(w2, microtasks)
        /\ pool[w1].timeout = "armed"
        /\ pool[w1].resolution = "undefined"

\* C10: a task holds the mutex and another task's acquire is suspended;
\* when the holder releases, that acquire completes, and a release made when
\* no acquire is suspended leaves no waiter in the deque.
C10_MutexScenario ==
  /\ \A b \in Tasks :
        (ReleasedNow /\ ret.pend = {b}) ~> (ret.op = "grant" /\ ret.t = b)
  /\ []((ReleasedNow /\ ret.pend = {}) => waiters = <<>>)

\* the holder released while the other task's acquire was suspended, after
\* its poll timed out twice
C10_Witness ==
  /\ ReleasedNow
  /\ \E b \in Tasks :
        /\ ret.pend = {b}
        /\ waitOn[b] >= 3
        /\ pool[waitOn[b]].resolution = "notified"
  /\ waiters = <<>>

\* C11: a call of acquire() made while the registry has fewer entries than
\* slots gives a handle at once and adds no waiter, whoever is queued; made
\* while the registry is full of live entries it suspends on a new waiter
\* (so of three calls on a fresh Semaphore(2) two complete at once); and a
\* woken acquire that finds the registry full again, its slot taken by a
\* call made after the release, waits on a new waiter at the tail.
C11_AcquireCallStep ==
  \A t \in Tasks :
     AcquireCall(t) =>
        IF Cardinality(active) < slots
        THEN /\ ret' = [op |-> "grant", t |-> t, after |-> "call"]
             /\ pc'[t] = "granted"
             /\ waiters' = waiters
             /\ waitOn'[t] = 0
             /\ active' = active \cup {h'[t]}
             /\ Cardinality(active') = Cardinality(active) + 1
        ELSE reclaimed = {} =>
                /\ pc'[t] = "waiting"
                /\ waiters' = Append(waiters, waitOn'[t])
                /\ active' = active

C11_WokenRequeues ==
  (RunResume /\ Cardinality(active) >= slots /\ reclaimed = {}) =>
     LET t == Head(microtasks).id
     IN mode[t] # "notified" =>
           /\ pc'[t] = "waiting"
           /\ waiters' = Append(waiters, waitOn'[t])
           /\ pool'[waitOn'[t]].promise = "pending"

C11_FreeSlotNoWait == [][C11_AcquireCallStep /\ C11_WokenRequeues]_vars

\* a call of acquire() that never suspended got the slot freed by a release
\* whose notify woke a suspended acquire: the resolution of that acquire's
\* waiter is still queued
C11_Witness ==
  /\ ret.op = "grant"
  /\ ~waited[ret.t]
  /\ \E b \in Pending :
        /\ pool[waitOn[b]].resolution = "notified"
        /\ ResolveQueued(waitOn[b], microtasks)
  /\ Cardinality(active) = slots

\* C12 as claimed: a waiter whose resolution by notify() or notifyAll() is
\* queued or done has no armed timer, so no timer callback runs for it.
C12_TimerCancelled ==
  \A w \in WaiterIds :
     (ResolveQueued(w, microtasks) \/ pool[w].promise = "true") =>
        pool[w].timeout # "armed"

\* notifyAll() resolved a waiter to true and the waiter's timer is still
\* armed: its callback will run
C12_Witness ==
  \E w \in WaiterIds :
     /\ pool[w].promise = "true"
     /\ pool[w].resolution = "undefined"
     /\ pool[w].timeout = "armed"

\* C13: a waiter gives one outcome and keeps it. When its timer fires on the
\* pending promise the waiter is marked cancelled and gives false; a promise
\* that gave false or true never changes, and a cancelled waiter stays
\* cancelled while it exists; notify() queues no resolution for a cancelled
\* waiter but resolves the first waiter without resolution if there is one.
C13_OutcomeKept ==
  \A w \in WaiterIds :
     /\ pool[w].promise = "false" => pool'[w].promise \in {"false", "none"}
     /\ pool[w].promise = "true" => pool'[w].promise \in {"true", "none"}
     /\ pool[w].resolution = "cancelled" =>
           (pool'[w].resolution = "cancelled" \/ pool'[w] = NoWaiter)
     /\ pool[w].resolution = "notified" =>
           (pool'[w].resolution = "notified" \/ pool'[w] = NoWaiter)

C13_TimeoutFirst ==
  \A w \in WaiterIds :
     (TimerFire(w) /\ pool[w].promise = "pending" /\ w \in SeqToSet(waiters)) =>
        /\ pool'[w].resolution = "cancelled"
        /\ pool'[w].promise = "false"
        /\ w \in SeqToSet(waiters')

C13_NotifyPassesOver ==
  NotifyCall =>
     /\ \A w \in WaiterIds :
           (pool[w].resolution = "cancelled" /\ ~ResolveQueued(w, microtasks)) =>
              ~ResolveQueued(w, microtasks')
     /\ PendingIdx(waiters, pool) # {} =>
           \E x \in SeqToSet(waiters) :
              /\ pool[x].resolution = "undefined"
              /\ microtasks' = Append(microtasks, [op |-> "resolve", id |-> x])

C13_FalseIsCancelled ==
  \A w \in WaiterIds : pool[w].promise = "false" => pool[w].resolution = "cancelled"

C13_OneOutcome ==
  /\ []C13_FalseIsCancelled
  /\ [][C13_OutcomeKept /\ C13_TimeoutFirst /\ C13_NotifyPassesOver]_vars

\* notifyAll() queued the resolution of a waiter that had timed out before:
\* the waiter is cancelled, its promise false
C13_Witness ==
  \E w \in WaiterIds :
     /\ pool[w].resolution = "cancelled"
     /\ pool[w].promise = "false"
     /\ ResolveQueued(w, microtasks)

\* C14 as claimed: the deque holds only waiters that are not resolved: none
\* is cancelled or notified, every promise in it is pending.
C14_OnlyPendingQueued ==
  \A i \in 1..Len(waiters) :
     /\ pool[waiters[i]].resolution = "undefined"
     /\ pool[waiters[i]].promise = "pending"

\* one acquire is suspended and the deque holds two waiters: the one its
\* poll timed out on, still queued, and the one it waits on now
C14_Witness ==
  /\ Cardinality(Pending) = 1
  /\ Len(waiters) = 2
  /\ pool[waiters[1]].resolution = "cancelled"
  /\ pool[waiters[1]].promise = "false"
  /\ \E t \in Pending : waitOn[t] = waiters[2]

\* the waiters of the deque that have no resolution yet
QueuedPending == {waiters[i] : i \in PendingIdx(waiters, pool)}

\* this step queued the microtask that resolves waiter w
Woken(w) == ResolveQueued(w, microtasks') /\ ~ResolveQueued(w, microtasks)

\* this step is a release call that deleted its entry
ReleaseStep == ret'.op \in ReleaseOps /\ ~ret'.threw

\* this step is an acquire whose #available() deleted stale entries
SweepStep == active \ active' # {} /\ ret'.op \notin ReleaseOps /\ ~CheckStale

\* C15 as claimed: every step that removes an entry from the registry (a
\* release, _checkStale, the sweep of stale entries in acquire) while a
\* waiter without resolution stays queued wakes a queued waiter.
C15_EveryCleanupWakes ==
  [][(/\ active \ active' # {}
      /\ \E w \in QueuedPending :
            w \in SeqToSet(waiters') /\ pool'[w].resolution = "undefined")
     => \E x \in WaiterIds : Woken(x)]_vars

\* C15: a release that deletes its entry queues the resolution of the first
\* queued waiter without resolution, and a _checkStale that deletes entries
\* queues the resolution of every queued waiter, both as microtasks of the
\* same step (no timer is involved); the sweep of stale entries inside
\* acquire wakes nobody.
C15_ReleaseWakes ==
  (ReleaseStep /\ QueuedPending # {}) =>
     LET w == waiters[Min(PendingIdx(waiters, pool))]
     IN /\ Woken(w)
        /\ microtasks' = Append(microtasks, [op |-> "resolve", id |-> w])
        /\ pool'[w].timeout # "armed"

C15_CheckStaleWakes ==
  (CheckStale /\ active' # active) =>
     /\ waiters' = <<>>
     /\ \A w \in SeqToSet(waiters) : ResolveQueued(w, microtasks')

C15_SweepWakesNobody ==
  SweepStep => \A x \in WaiterIds : ~Woken(x)

C15_CleanupWakeups ==
  [][C15_ReleaseWakes /\ C15_CheckStaleWakes /\ C15_SweepWakesNobody]_vars

\* an acquire swept two stale entries and took one slot: a slot is free and
\* a suspended acquire stays queued, its resolution not queued
C15_Witness ==
  /\ ret.op = "grant"
  /\ everDiscarded
  /\ Cardinality(active) < slots
  /\ \E b \in Pending :
        /\ waitOn[b] \in QueuedPending
        /\ ~ResolveQueued(waitOn[b], microtasks)

\* this step is a call that notifies: a release call, _checkStale
NotifierStep == ret'.op \in ReleaseOps \/ CheckStale

\* C16: notify() and notifyAll() resolve no waiter inline. In the step of
\* the notifier (release, _checkStale) no promise is settled and no waiting
\* task goes on; a pending promise becomes true only when the microtask
\* queued for it runs, and a waiting task goes on only in a later microtask
\* (the continuation of its await, the promise being true) or when its
\* timer fires.
C16_NotifierRunsAlone ==
  NotifierStep =>
     /\ \A w \in WaiterIds :
           pool[w].promise = "pending" => pool'[w].promise = "pending"
     /\ \A t \in Tasks :
           pc[t] = "waiting" => (pc'[t] = "waiting" /\ waitOn'[t] = waitOn[t])

C16_SettledByMicrotask ==
  \A w \in WaiterIds :
     (pool[w].promise = "pending" /\ pool'[w].promise = "true") =>
        (RunResolve /\ Head(microtasks) = [op |-> "resolve", id |-> w])

C16_ContinuesLater ==
  \A t \in Tasks :
     (pc[t] = "waiting" /\ (pc'[t] # "waiting" \/ waitOn'[t] # waitOn[t])) =>
        \/ /\ RunResume
           /\ Head(microtasks) = [op |-> "resume", id |-> t]
           /\ pool[waitOn[t]].promise = "true"
        \/ TimerFire(waitOn[t])

C16_DeferredResolution ==
  [][C16_NotifierRunsAlone /\ C16_SettledByMicrotask /\ C16_ContinuesLater]_vars

\* release() returned to a task that still has its handle and goes on; the
\* resolution of the waiter it notified is queued, the promise is pending
\* and the woken acquire has not run
C16_Witness ==
  /\ ret.op = "release" /\ ~ret.threw
  /\ pc[ret.t] = "holding"
  /\ \E b \in Pending :
        /\ pool[waitOn[b]].resolution = "notified"
        /\ pool[waitOn[b]].promise = "pending"
        /\ ResolveQueued(waitOn[b], microtasks)

\* this step queued the resolution of every waiter of the deque
WakesAll ==
  /\ waiters' = <<>>
  /\ \A w \in SeqToSet(waiters) : ResolveQueued(w, microtasks')

\* this step left the deque and the microtask queue as they were
WakesNone == waiters' = waiters /\ microtasks' = microtasks

\* C17 as claimed: _checkStale deletes exactly the stale entries, wakes all
\* queued waiters when that deletion leaves fewer entries than slots, and
\* wakes nobody otherwise, in particular when it deletes nothing.
C17_WakesOnlyOnRemoval ==
  [][CheckStale =>
       /\ active' = active \ reclaimed
       /\ waiters # <<>> =>
             IF active' # active /\ Cardinality(active') < slots
             THEN WakesAll ELSE WakesNone]_vars

\* C17: _checkStale deletes exactly the stale entries and wakes all queued
\* waiters exactly when fewer entries than slots are left, whether or not
\* it deleted any.
C17_CheckStaleWakes ==
  [][CheckStale =>
       /\ active' = active \ reclaimed
       /\ reclaimed' = {}
       /\ waiters # <<>> =>
             IF Cardinality(active') < slots THEN WakesAll ELSE WakesNone]_vars

\* no handle was ever reclaimed, a slot is free, and _checkStale has queued
\* the resolution of a waiter that notify() had not reached
C17_Witness ==
  /\ ~everDiscarded
  /\ Cardinality(active) < slots
  /\ waiters = <<>>
  /\ \E b \in Pending :
        /\ pool[waitOn[b]].resolution = "undefined"
        /\ pool[waitOn[b]].promise = "pending"
        /\ ResolveQueued(waitOn[b], microtasks)

\* C18: slots are not granted in the order of arrival. When the poll timer
\* of a suspended acquire fires and a slot is free (an entry is missing or
\* stale), that acquire gets the slot, whichever acquires that arrived
\* earlier are suspended; those stay suspended on the waiters they have.
C18_PollWins ==
  \A w \in WaiterIds :
     LET t == Owner(w, waitOn, pc)
     IN (/\ OrderedTimerFire(w)
         /\ t \in Pending
         /\ pool[w].promise = "pending"
         /\ Cardinality(active \ reclaimed) < slots) =>
           /\ ret' = [op |-> "grant", t |-> t, after |-> "false"]
           /\ pc'[t] = "granted"
           /\ \A b \in Pending \ {t} : pc'[b] = "waiting" /\ waitOn'[b] = waitOn[b]

\* every armed timer belongs to a waiter of the deque, so the order of the
\* deque is the order of the timers
C18_TimersQueued ==
  \A w \in WaiterIds : pool[w].timeout = "armed" => w \in SeqToSet(waiters)

C18_NotFifo == []C18_TimersQueued /\ [][C18_PollWins]_vars

\* an acquire was granted a slot after its poll timed out while an acquire
\* that arrived earlier is suspended on a pending waiter with its timer armed
C18_Witness ==
  /\ ret.op = "grant" /\ ret.after = "false"
  /\ \E b \in Pending :
        /\ b < ret.t
        /\ waitOn[b] \in SeqToSet(waiters)
        /\ pool[waitOn[b]].resolution = "undefined"
        /\ pool[waitOn[b]].promise = "pending"
        /\ pool[waitOn[b]].timeout = "armed"

\* C19: a release call that throws (its key is not in the registry) leaves
\* the registry, the deque, the waiters and the microtask queue as they
\* were; one that succeeds deletes the entry of its own key and no other and
\* queues the resolution of at most one waiter.
C19_ReleaseStep ==
  ret'.op \in ReleaseOps =>
     LET key == h[ret'.t]
     IN /\ ret'.threw <=> key \notin active
        /\ slots' = slots /\ reclaimed' = reclaimed
        /\ IF ret'.threw
           THEN /\ active' = active
                /\ waiters' = waiters
                /\ microtasks' = microtasks
                /\ pool' = pool
           ELSE /\ active' = active \ {key}
                /\ Cardinality(active') = Cardinality(active) - 1
                /\ Cardinality({x \in WaiterIds : Woken(x)}) <= 1
                /\ Len(microtasks') <= Len(microtasks) + 1

C19_ReleaseFrame == [][C19_ReleaseStep]_vars

\* a release call threw while an acquire was suspended on a queued waiter,
\* which it left alone
C19_Witness ==
  /\ ret.op \in ReleaseOps /\ ret.threw
  /\ QueuedPending # {}
  /\ \A x \in QueuedPending : ~ResolveQueued(x, microtasks)
  /\ active # {}

\* a slot is free: fewer live entries than slots
Free == Cardinality(active \ reclaimed) < slots

\* the continuation of task t's await is queued
ResumeQueued(t) ==
  \E i \in 1..Len(microtasks) : microtasks[i] = [op |-> "resume", id |-> t]

\* task t waits on a new waiter: the last of the deque, pending, timer armed
WaitsAnew(t) ==
  /\ pc'[t] = "waiting"
  /\ waiters' # <<>>
  /\ waitOn'[t] = waiters'[Len(waiters')]
  /\ Len(waiters') = Len(waiters) + 1
  /\ pool'[waitOn'[t]].promise = "pending"
  /\ pool'[waitOn'[t]].resolution = "undefined"
  /\ pool'[waitOn'[t]].timeout = "armed"

\* C20: no wakeup of acquire is lost. A call of acquire() tests the
\* registry and queues its waiter in one step; a task suspended in acquire
\* always has its poll timer armed, or the resolution of its waiter queued,
\* or (the resolution done) the continuation of its await queued; when its
\* wait returns, true or false, it tests the registry again and takes a
\* free slot or waits on a new waiter; and a suspended acquire does not
\* stay suspended while a slot stays free.
C20_CanWake ==
  \A t \in Pending :
     \/ pool[waitOn[t]].timeout = "armed"
     \/ ResolveQueued(waitOn[t], microtasks)
     \/ ResumeQueued(t)

C20_CheckAndEnqueue ==
  \A t \in Tasks :
     AcquireCall(t) =>
        IF Free
        THEN ret' = [op |-> "grant", t |-> t, after |-> "call"]
        ELSE WaitsAnew(t) /\ Cardinality(active') >= slots

C20_Rechecks ==
  \A t \in Pending :
     (\/ RunResume /\ Head(microtasks) = [op |-> "resume", id |-> t]
      \/ TimerFire(waitOn[t]) /\ pool[waitOn[t]].promise = "pending") =>
        IF Free
        THEN ret'.op = "grant" /\ ret'.t = t /\ pc'[t] = "granted"
        ELSE WaitsAnew(t) /\ Cardinality(active') >= slots

C20_NoLostWakeup ==
  /\ []C20_CanWake
  /\ [][C20_CheckAndEnqueue /\ C20_Rechecks]_vars
  /\ \A t \in Tasks : []<>(t \notin Pending \/ ~Free)

\* a slot is free (its handle was reclaimed) and a suspended acquire, which
\* nobody notified, has only its poll timer to wake it
C20_Witness ==
  /\ Free
  /\ microtasks = <<>>
  /\ \E t \in Pending :
        /\ waitOn[t] \in QueuedPending
        /\ pool[waitOn[t]].timeout = "armed"

====
